---- MODULE Spec2Model ----
(***************************************************************************)
(* Model of the todo HTTP service of src/main.go: the request handlers,    *)
(* the document store (MongoDB collection) and the key-value cache (Redis) *)
(* they talk to.  Every handler is split at its store and cache calls, so  *)
(* that concurrent requests interleave exactly where the Go runtime lets   *)
(* them interleave.  func main's shutdown sequence and the creation order  *)
(* of the resources of src/main.tf are modelled in specifications of their *)
(* own (SpecShutdown, SpecInfra); SpecSeq and SpecLive restrict the        *)
(* requests to sequential and to fair executions.                          *)
(***************************************************************************)
EXTENDS Integers, Sequences, FiniteSets, TLC

\* ------------------------------------------------------------------ bounds
\* identifiers NewObjectID hands out during a run
MaxIds == 2
\* requests the clients send during a run
MaxReqs == 2
\* values written into the cache by something other than this service
MaxCorrupt == 1

\* concurrent request goroutines and the titles clients submit
Procs == {"p1", "p2"}
Titles == {"t1"}

\* --------------------------------------------------------------- constants
StatusOK == 200
StatusCreated == 201
StatusSeeOther == 303
StatusBadRequest == 400
StatusNotFound == 404
StatusInternalServerError == 500
\* expiration of "todos:all" and of "todo:<id>", in minutes
ListTTL == 10
ItemTTL == 5

\* ------------------------------------------------------------ identifiers
\* An identifier string of the URL is <<n, spelling>>: the lower-case or the
\* upper-case hex spelling of ObjectID n, or a string that is no 24-digit hex.
NilObjectID == 0
Ids == 1..MaxIds
Malformed == <<0, "bad">>
HexStrs == (Ids \X {"lower", "upper"}) \cup {Malformed}

\* ObjectID.Hex(): always the lower-case spelling
Hex(id) == <<id, "lower">>

\* primitive.ObjectIDFromHex: hex.DecodeString accepts both cases; on error
\* the result is NilObjectID
ObjectIDFromHex(s) ==
  IF s[2] = "bad" THEN [id |-> NilObjectID, err |-> TRUE]
  ELSE [id |-> s[1], err |-> FALSE]

\* ------------------------------------------------------------------- cache
ListKey == <<"todos:all", <<0, "">>>>
\* fmt.Sprintf("todo:%s", idStr): the key carries the string as it was sent
ItemKey(idStr) == <<"todo:", idStr>>
CacheKeys == {ListKey} \cup {ItemKey(s) : s \in HexStrs}

\* redis.Nil (no value) and a value that json.Unmarshal rejects
Nil == <<>>
Garbage == <<"garbage">>

\* ---------------------------------------------------------------- encoding
\* json.Marshal of a Todo: the identifier is written as its hex string
Marshal(t) == <<"todo", Hex(t.ID), t.Title, t.Completed, t.CreatedAt>>
MarshalList(ts) == <<"list", [i \in 1..Len(ts) |-> Marshal(ts[i])]>>

\* json.Unmarshal into a Todo / a []Todo; ok = FALSE is the decode error
UnmarshalTodo(v) ==
  IF Len(v) = 5 /\ v[1] = "todo"
  THEN [ok |-> TRUE,
        val |-> <<[ID |-> ObjectIDFromHex(v[2]).id, Title |-> v[3],
                   Completed |-> v[4], CreatedAt |-> v[5]]>>]
  ELSE [ok |-> FALSE, val |-> <<>>]
UnmarshalList(v) ==
  IF Len(v) = 2 /\ v[1] = "list"
  THEN [ok |-> TRUE,
        val |-> [i \in 1..Len(v[2]) |-> UnmarshalTodo(v[2][i]).val[1]]]
  ELSE [ok |-> FALSE, val |-> <<>>]

\* ------------------------------------------------------------------- state
VARIABLES
  store,     \* the collection: ObjectID -> document
  cache,     \* the Redis keyspace: key -> value, Nil when absent
  nextId,    \* the counter behind primitive.NewObjectID
  clock,     \* the wall clock behind time.Now
  pc,        \* where each request goroutine stands in its handler
  req,       \* the request a goroutine serves
  local,     \* the handler's local todos / todo / newTodo
  resp,      \* the response written so far
  gh,        \* per request: what it has done to store and cache (history)
  ideal,     \* no store or cache call failed, no foreign cache write, and
             \* every identifier came in the canonical (lower-case) spelling
  left,      \* requests the clients have yet to send
  ncorrupt,  \* foreign cache writes
  srv,       \* func main and its http.Server: phase, grace period, handles
  created    \* the resources of main.tf the provisioning tool has created

vars == <<store, cache, nextId, clock, pc, req, local, resp, gh, ideal,
          left, ncorrupt, srv, created>>

\* ---------------------------------------------------------------- requests
NoReq == [kind |-> "none", id |-> Malformed, ctype |-> "", valid |-> TRUE,
          title |-> <<>>, completed |-> <<>>]
Request(kind) == [NoReq EXCEPT !.kind = kind]

\* http.ResponseWriter: the first WriteHeader fixes the status, later ones
\* are superfluous; a Write without a header sends 200
NoResp == [status |-> 0, body |-> <<>>, hdr |-> 0, location |-> ""]
WriteHeader(w, code) ==
  [w EXCEPT !.status = IF w.hdr = 0 THEN code ELSE @, !.hdr = @ + 1]
Write(w, part) ==
  [w EXCEPT !.status = IF w.hdr = 0 THEN StatusOK ELSE @,
            !.hdr = IF @ = 0 THEN 1 ELSE @,
            !.body = Append(@, part)]
HttpError(w, msg, code) == Write(WriteHeader(w, code), <<"error", msg>>)
\* http.Redirect on a POST: Location header and status, no body
Redirect(w, url, code) ==
  WriteHeader(IF w.hdr = 0 THEN [w EXCEPT !.location = url] ELSE w, code)

NoGh == [clean |-> FALSE, cOk |-> FALSE, sOps |-> 0,
         sErr |-> FALSE, wrote |-> FALSE, matched |-> 0, dels |-> {},
         sets |-> {}]

\* a request whose store mutation succeeded and whose handler has not returned
InWindow(p) == pc[p] \notin {"idle", "done"} /\ gh[p].wrote
Quiet == \A p \in Procs : ~InWindow(p)

\* ---------------------------------------------------------- infrastructure
\* the resources main.tf declares
Resources ==
  {"resource_group", "virtual_network", "subnet_container_apps",
   "subnet_private_endpoints", "dns_zone_cosmos", "dns_link_cosmos",
   "dns_zone_redis", "dns_link_redis", "cosmosdb_account",
   "private_endpoint_cosmos", "cosmosdb_mongo_database", "redis_cache",
   "private_endpoint_redis", "log_analytics_workspace",
   "container_app_environment", "container_registry", "container_app"}

\* (variant: the private endpoints do not refer to their DNS zones)
DependsOn_NoZone(r) ==
  CASE r = "resource_group" -> {}
    [] r = "virtual_network" -> {"resource_group"}
    [] r = "subnet_container_apps" -> {"resource_group", "virtual_network"}
    [] r = "subnet_private_endpoints" -> {"resource_group", "virtual_network"}
    [] r = "dns_zone_cosmos" -> {"resource_group"}
    [] r = "dns_link_cosmos" ->
         {"resource_group", "dns_zone_cosmos", "virtual_network"}
    [] r = "dns_zone_redis" -> {"resource_group"}
    [] r = "dns_link_redis" ->
         {"resource_group", "dns_zone_redis", "virtual_network"}
    [] r = "cosmosdb_account" -> {"resource_group"}
    [] r = "private_endpoint_cosmos" ->
         {"resource_group", "subnet_private_endpoints", "cosmosdb_account"}
    [] r = "cosmosdb_mongo_database" -> {"cosmosdb_account"}
    [] r = "redis_cache" -> {"resource_group"}
    [] r = "private_endpoint_redis" ->
         {"resource_group", "subnet_private_endpoints", "redis_cache"}
    [] r = "log_analytics_workspace" -> {"resource_group"}
    [] r = "container_app_environment" ->
         {"resource_group", "log_analytics_workspace",
          "subnet_container_apps"}
    [] r = "container_registry" -> {"resource_group"}
    [] r = "container_app" ->
         {"container_app_environment", "resource_group",
          "container_registry", "cosmosdb_account",
          "cosmosdb_mongo_database", "redis_cache",
          "private_endpoint_cosmos", "private_endpoint_redis"}

\* the dependency edges of a resource: the resources its arguments refer to
\* and those its depends_on lists
DependsOn(r) ==
  CASE r = "resource_group" -> {}
    [] r = "virtual_network" -> {"resource_group"}
    [] r = "subnet_container_apps" -> {"resource_group", "virtual_network"}
    [] r = "subnet_private_endpoints" -> {"resource_group", "virtual_network"}
    [] r = "dns_zone_cosmos" -> {"resource_group"}
    [] r = "dns_link_cosmos" ->
         {"resource_group", "dns_zone_cosmos", "virtual_network"}
    [] r = "dns_zone_redis" -> {"resource_group"}
    [] r = "dns_link_redis" ->
         {"resource_group", "dns_zone_redis", "virtual_network"}
    [] r = "cosmosdb_account" -> {"resource_group"}
    [] r = "private_endpoint_cosmos" ->
         {"resource_group", "subnet_private_endpoints", "cosmosdb_account",
          "dns_zone_cosmos"}
    [] r = "cosmosdb_mongo_database" -> {"cosmosdb_account"}
    [] r = "redis_cache" -> {"resource_group"}
    [] r = "private_endpoint_redis" ->
         {"resource_group", "subnet_private_endpoints", "redis_cache",
          "dns_zone_redis"}
    [] r = "log_analytics_workspace" -> {"resource_group"}
    [] r = "container_app_environment" ->
         {"resource_group", "log_analytics_workspace",
          "subnet_container_apps"}
    [] r = "container_registry" -> {"resource_group"}
    [] r = "container_app" ->
         {"container_app_environment", "resource_group",
          "container_registry", "cosmosdb_account",
          "cosmosdb_mongo_database", "redis_cache",
          "private_endpoint_cosmos", "private_endpoint_redis"}

\* ------------------------------------------------------------ func main
\* the grace period of server.Shutdown (5 s), in clock ticks
Grace == 2

\* main after setup: the listener is open, both client handles are open
Running == [state |-> "serving", grace |-> 0, cut |-> {}, redis |-> TRUE,
            mongo |-> TRUE]

\* ------------------------------------------------------------------- store
Todo(id) == [ID |-> id, Title |-> store[id].Title,
             Completed |-> store[id].Completed,
             CreatedAt |-> store[id].CreatedAt]

\* Find with sort createdAt descending
RECURSIVE SortDesc(_)
SortDesc(S) ==
  IF S = {} THEN <<>>
  ELSE LET m == CHOOSE i \in S :
                  \A j \in S : store[j].CreatedAt <= store[i].CreatedAt
       IN <<Todo(m)>> \o SortDesc(S \ {m})
FindAll == SortDesc(DOMAIN store)

\* ----------------------------------------------------------------- helpers
\* A handler's return touches nothing shared, so it is taken as soon as the
\* handler is done, before any other step: a finished request is looked at
\* once, on its own.
Returning == \E p \in Procs : pc[p] = "done"

\* request p stands at the given place of its handler
At(p, place) == pc[p] = place /\ ~Returning

\* goroutine p is free to serve a request the clients have yet to send
Free(p) == At(p, "idle") /\ left > 0

\* the request goroutine p picks up request r
Begin(p, r) ==
  /\ left' = left - 1
  /\ req' = [req EXCEPT ![p] = r]

\* history of a fresh request: it starts clean when every earlier write has
\* been answered
FreshGh == [NoGh EXCEPT !.clean = Quiet]

\* a cache call of p that the cache answered (ok) or not
CacheCall(g, ok) == [g EXCEPT !.cOk = @ \/ ok]
\* a store mutation by p makes every other request in flight unclean
Dirty(g, p) ==
  [q \in Procs |-> IF q = p THEN g[q] ELSE [g[q] EXCEPT !.clean = FALSE]]

\* The collection outlives the process: the service starts on a store that
\* holds the documents earlier runs left (here one), with the cache empty.
InitStore == (1 :> [Title |-> "t0", Completed |-> FALSE, CreatedAt |-> 1])

Init ==
  /\ store = InitStore
  /\ cache = [k \in CacheKeys |-> Nil]
  /\ nextId = 2
  /\ clock = 2
  /\ pc = [p \in Procs |-> "idle"]
  /\ req = [p \in Procs |-> NoReq]
  /\ local = [p \in Procs |-> <<>>]
  /\ resp = [p \in Procs |-> NoResp]
  /\ gh = [p \in Procs |-> NoGh]
  /\ ideal = TRUE
  /\ left = MaxReqs
  /\ ncorrupt = 0
  /\ srv = Running
  /\ created = Resources


\* the step of request p ends in state next, having written response w
Goto(p, next, w) ==
  /\ pc' = [pc EXCEPT ![p] = next]
  /\ resp' = [resp EXCEPT ![p] = w]

\* RedisClient.Del(ctx, keys...): removes the keys when the cache answers
Del(keys, ok) ==
  cache' = IF ok THEN [k \in CacheKeys |-> IF k \in keys THEN Nil ELSE cache[k]]
           ELSE cache
\* RedisClient.Set(ctx, key, data, ttl)
Set(key, data, ok) ==
  cache' = IF ok THEN [cache EXCEPT ![key] = data] ELSE cache

\* ------------------------------------------------- getAllTodos (list, home)
\* the body each of the two callers of getAllTodos writes
RenderAll(kind, todos) ==
  IF kind = "home" THEN <<"html", MarshalList(todos)[2]>>
  ELSE MarshalList(todos)
FailAll(kind) ==
  IF kind = "home" THEN "Failed to load todos" ELSE "Failed to fetch todos"

\* what getAllTodos makes of the cached value: served only when the cache
\* answered, held a value and the value deserialized
ListFromCache(cached, ok) ==
  IF ok /\ cached # Nil /\ UnmarshalList(cached).ok
  THEN [hit |-> TRUE, todos |-> UnmarshalList(cached).val]
  ELSE [hit |-> FALSE, todos |-> <<>>]

\* request arrival and RedisClient.Get("todos:all")
GetAllTodos_Get(p, kind) ==
  /\ Free(p)
  /\ Begin(p, Request(kind))
  /\ \E ok \in BOOLEAN :
       LET c == ListFromCache(cache[ListKey], ok) IN
       /\ IF c.hit
          THEN /\ Goto(p, "done", Write(NoResp, RenderAll(kind, c.todos)))
               /\ local' = [local EXCEPT ![p] = c.todos]
          ELSE /\ Goto(p, "all_find", NoResp)
               /\ local' = [local EXCEPT ![p] = <<>>]
       /\ gh' = [gh EXCEPT ![p] = CacheCall(FreshGh, ok)]
       /\ ideal' = (ideal /\ ok)
  /\ UNCHANGED <<srv, created>>
  /\ UNCHANGED <<store, cache, nextId, clock, ncorrupt>>

listTodos(p) == GetAllTodos_Get(p, "list")
handleHome(p) == GetAllTodos_Get(p, "home")

\* Collection.Find sorted by createdAt descending, cursor.All
GetAllTodos_Find(p) ==
  /\ At(p, "all_find")
  /\ \E ok \in BOOLEAN :
       /\ IF ok
          THEN /\ Goto(p, "all_set", resp[p])
               /\ local' = [local EXCEPT ![p] = FindAll]
          ELSE /\ Goto(p, "done", HttpError(resp[p], FailAll(req[p].kind),
                                            StatusInternalServerError))
               /\ UNCHANGED local
       /\ gh' = [gh EXCEPT ![p].sOps = @ + 1, ![p].sErr = @ \/ ~ok]
       /\ ideal' = (ideal /\ ok)
  /\ UNCHANGED <<srv, created>>
  /\ UNCHANGED <<store, cache, nextId, clock, req, left, ncorrupt>>

\* RedisClient.Set("todos:all", data, 10 min), then the caller's response
GetAllTodos_Set(p) ==
  /\ At(p, "all_set")
  /\ \E ok \in BOOLEAN :
       /\ Set(ListKey, MarshalList(local[p]), ok)
       /\ gh' = [gh EXCEPT ![p] = [CacheCall(@, ok) EXCEPT
                                     !.sets = @ \cup {ListKey}]]
       /\ ideal' = (ideal /\ ok)
  /\ Goto(p, "done", Write(resp[p], RenderAll(req[p].kind, local[p])))
  /\ UNCHANGED <<srv, created>>
  /\ UNCHANGED <<store, nextId, clock, req, local, left, ncorrupt>>

\* -------------------------------------------------------------- createTodo
\* the title the handler reads: "" when the field is missing or empty
TitleOf(r) == IF r.title = <<>> THEN "" ELSE r.title[1]

CreateRequests ==
  {[Request("create") EXCEPT !.ctype = c, !.valid = v, !.title = t] :
     c \in {"json", "form"}, v \in BOOLEAN,
     t \in {<<>>} \cup {<<x>> : x \in Titles}}

\* (variant: the document starts out completed)
NewTodo_Completed(title) ==
  [ID |-> nextId, Title |-> title, Completed |-> TRUE, CreatedAt |-> clock]

\* the document createTodo builds
NewTodo(title) ==
  [ID |-> nextId, Title |-> title, Completed |-> FALSE, CreatedAt |-> clock]

\* (variant: the title is not checked)
CreateRejects_NoTitleCheck(r) ==
  IF ~r.valid
  THEN HttpError(NoResp, IF r.ctype = "form" THEN "Invalid form data"
                         ELSE "Invalid request body", StatusBadRequest)
  ELSE NoResp

\* body parsing and validation of createTodo: the error response, or none
CreateRejects(r) ==
  IF ~r.valid
  THEN HttpError(NoResp, IF r.ctype = "form" THEN "Invalid form data"
                         ELSE "Invalid request body", StatusBadRequest)
  ELSE IF TitleOf(r) = ""
  THEN HttpError(NoResp, "Title is required", StatusBadRequest)
  ELSE NoResp

\* request arrival, parsing, validation, NewObjectID and time.Now
createTodo(p) ==
  /\ Free(p)
  /\ \E r \in CreateRequests :
       /\ Begin(p, r)
       /\ IF CreateRejects(r) # NoResp
          THEN /\ Goto(p, "done", CreateRejects(r))
               /\ local' = [local EXCEPT ![p] = <<>>]
               /\ UNCHANGED <<nextId, clock>>
          ELSE /\ nextId <= MaxIds
               /\ Goto(p, "create_insert", NoResp)
               /\ local' = [local EXCEPT ![p] = <<NewTodo(TitleOf(r))>>]
               /\ nextId' = nextId + 1
               /\ clock' = clock + 1
  /\ gh' = [gh EXCEPT ![p] = FreshGh]
  /\ UNCHANGED <<srv, created>>
  /\ UNCHANGED <<store, cache, ideal, ncorrupt>>

\* Collection.InsertOne: fails on a store error or a duplicate _id
createTodo_Insert(p) ==
  /\ At(p, "create_insert")
  /\ \E ok \in BOOLEAN :
       LET t == local[p][1] IN
       /\ IF ok /\ t.ID \notin DOMAIN store
          THEN /\ store' = store @@ (t.ID :> [Title |-> t.Title,
                                              Completed |-> t.Completed,
                                              CreatedAt |-> t.CreatedAt])
               /\ gh' = [Dirty(gh, p) EXCEPT ![p].sOps = @ + 1, ![p].wrote = TRUE]
               /\ Goto(p, "create_del", resp[p])
          ELSE /\ UNCHANGED store
               /\ gh' = [gh EXCEPT ![p].sOps = @ + 1, ![p].sErr = TRUE]
               /\ Goto(p, "done", HttpError(resp[p], "Failed to create todo",
                                            StatusInternalServerError))
       /\ ideal' = (ideal /\ ok)
  /\ UNCHANGED <<srv, created>>
  /\ UNCHANGED <<cache, nextId, clock, req, local, left, ncorrupt>>

\* (variant: createTodo invalidates nothing)
CreateInvalidates_None(t) == {}

\* the keys createTodo invalidates
CreateInvalidates(t) == {ListKey}

\* the response to a created todo: a redirect for the form, 201 and the
\* representation for JSON
CreateResponds(w, r, t) ==
  IF r.ctype = "form" THEN Redirect(w, "/", StatusSeeOther)
  ELSE Write(WriteHeader(w, StatusCreated), Marshal(t))

\* RedisClient.Del("todos:all"), then the response
createTodo_Del(p) ==
  /\ At(p, "create_del")
  /\ \E ok \in BOOLEAN :
       /\ Del(CreateInvalidates(local[p][1]), ok)
       /\ gh' = [gh EXCEPT ![p] = [CacheCall(@, ok) EXCEPT
                   !.dels = @ \cup CreateInvalidates(local[p][1])]]
       /\ ideal' = (ideal /\ ok)
  /\ Goto(p, "done", CreateResponds(resp[p], req[p], local[p][1]))
  /\ UNCHANGED <<srv, created>>
  /\ UNCHANGED <<store, nextId, clock, req, local, left, ncorrupt>>

\* ----------------------------------------------------------------- getTodo
\* (variant: a cache that does not answer counts as a hit with no value)
ItemFromCache_ErrIsHit(cached, ok) ==
  IF ~ok \/ cached # Nil THEN [hit |-> TRUE, body |-> IF ok THEN cached ELSE Nil]
  ELSE [hit |-> FALSE, body |-> Nil]

\* what getTodo makes of the cached value: whatever the cache holds is
\* written to the client as it is
ItemFromCache(cached, ok) ==
  IF ok /\ cached # Nil THEN [hit |-> TRUE, body |-> cached]
  ELSE [hit |-> FALSE, body |-> Nil]

\* request arrival and RedisClient.Get("todo:<idStr>")
getTodo(p) ==
  /\ Free(p)
  /\ \E s \in HexStrs :
       /\ Begin(p, [Request("get") EXCEPT !.id = s])
       /\ \E ok \in BOOLEAN :
            LET c == ItemFromCache(cache[ItemKey(s)], ok) IN
            /\ IF c.hit
               THEN Goto(p, "done", Write(NoResp, c.body))
               ELSE Goto(p, "get_find", NoResp)
            /\ gh' = [gh EXCEPT ![p] = CacheCall(FreshGh, ok)]
            /\ ideal' = (ideal /\ ok /\ s[2] # "upper")
  /\ local' = [local EXCEPT ![p] = <<>>]
  /\ UNCHANGED <<srv, created>>
  /\ UNCHANGED <<store, cache, nextId, clock, ncorrupt>>

\* ObjectIDFromHex with its error dropped, Collection.FindOne({_id: objID})
\* .Decode: every error answers 404
getTodo_FindOne(p) ==
  /\ At(p, "get_find")
  /\ \E ok \in BOOLEAN :
       LET objID == ObjectIDFromHex(req[p].id).id IN
       /\ IF ok /\ objID \in DOMAIN store
          THEN /\ Goto(p, "get_set", resp[p])
               /\ local' = [local EXCEPT ![p] = <<Todo(objID)>>]
          ELSE /\ Goto(p, "done", HttpError(resp[p], "Todo not found",
                                            StatusNotFound))
               /\ UNCHANGED local
       /\ gh' = [gh EXCEPT ![p].sOps = @ + 1, ![p].sErr = @ \/ ~ok]
       /\ ideal' = (ideal /\ ok)
  /\ UNCHANGED <<srv, created>>
  /\ UNCHANGED <<store, cache, nextId, clock, req, left, ncorrupt>>

\* RedisClient.Set("todo:<idStr>", data, 5 min), then the response
getTodo_Set(p) ==
  /\ At(p, "get_set")
  /\ \E ok \in BOOLEAN :
       /\ Set(ItemKey(req[p].id), Marshal(local[p][1]), ok)
       /\ gh' = [gh EXCEPT ![p] = [CacheCall(@, ok) EXCEPT
                                     !.sets = @ \cup {ItemKey(req[p].id)}]]
       /\ ideal' = (ideal /\ ok)
  /\ Goto(p, "done", Write(resp[p], Marshal(local[p][1])))
  /\ UNCHANGED <<srv, created>>
  /\ UNCHANGED <<store, nextId, clock, req, local, left, ncorrupt>>

\* ------------------------------------------------- updateTodo, deleteTodo
\* (variant: the item-level key is forgotten)
WriteInvalidates_ListOnly(idStr) == {ListKey}

\* the keys updateTodo, deleteTodo and deleteTodoForm invalidate
WriteInvalidates(idStr) == {ListKey, ItemKey(idStr)}

\* the response of updateTodo, deleteTodo and deleteTodoForm to an
\* identifier string that is no ObjectID
IdRejects(w, idStr) ==
  IF ObjectIDFromHex(idStr).err THEN HttpError(w, "Invalid ID", StatusBadRequest)
  ELSE w

UpdateRequests ==
  {[Request("update") EXCEPT !.id = s, !.valid = v, !.title = t,
                             !.completed = c] :
     s \in HexStrs, v \in BOOLEAN,
     t \in {<<>>} \cup {<<x>> : x \in Titles},
     c \in {<<>>, <<TRUE>>, <<FALSE>>}}

\* (variant: a whole-document write, absent fields become zero values)
ApplyUpdate_Whole(doc, r) ==
  [doc EXCEPT !.Title = IF r.title = <<>> THEN "" ELSE r.title[1],
              !.Completed = IF r.completed = <<>> THEN FALSE
                            ELSE r.completed[1]]

\* $set of the fields the body carries
ApplyUpdate(doc, r) ==
  [doc EXCEPT !.Title = IF r.title = <<>> THEN @ ELSE r.title[1],
              !.Completed = IF r.completed = <<>> THEN @ ELSE r.completed[1]]

\* request arrival, identifier and body parsing, Collection.UpdateOne
updateTodo(p) ==
  /\ Free(p)
  /\ \E r \in UpdateRequests :
       /\ Begin(p, r)
       /\ IF IdRejects(NoResp, r.id) # NoResp
          THEN /\ Goto(p, "done", IdRejects(NoResp, r.id))
               /\ gh' = [gh EXCEPT ![p] = FreshGh]
               /\ UNCHANGED <<store, ideal>>
          ELSE IF ~r.valid
          THEN /\ Goto(p, "done",
                       HttpError(NoResp, "Invalid body", StatusBadRequest))
               /\ gh' = [gh EXCEPT ![p] = FreshGh]
               /\ ideal' = (ideal /\ r.id[2] # "upper")
               /\ UNCHANGED store
          ELSE \E ok \in BOOLEAN :
               LET objID == ObjectIDFromHex(r.id).id
                   found == objID \in DOMAIN store
                   g == [gh EXCEPT ![p] = [FreshGh EXCEPT !.sOps = 1]]
               IN
               /\ ideal' = (ideal /\ ok /\ r.id[2] # "upper")
               /\ IF ok /\ found
                  THEN /\ store' = [store EXCEPT
                                      ![objID] = ApplyUpdate(@, r)]
                       /\ gh' = [Dirty(g, p) EXCEPT ![p].wrote = TRUE,
                                                 ![p].matched = 1]
                       /\ Goto(p, "update_del", NoResp)
                  ELSE IF ok
                  THEN /\ UNCHANGED store
                       /\ gh' = g
                       /\ Goto(p, "update_del", NoResp)
                  ELSE /\ UNCHANGED store
                       /\ gh' = [g EXCEPT ![p].sErr = TRUE]
                       /\ Goto(p, "done", HttpError(NoResp, "Failed to update",
                                                StatusInternalServerError))
  /\ local' = [local EXCEPT ![p] = <<>>]
  /\ UNCHANGED <<srv, created>>
  /\ UNCHANGED <<cache, nextId, clock, ncorrupt>>

\* RedisClient.Del("todos:all", "todo:<idStr>"), then the acknowledgement
updateTodo_Del(p) ==
  /\ At(p, "update_del")
  /\ \E ok \in BOOLEAN :
       /\ Del(WriteInvalidates(req[p].id), ok)
       /\ gh' = [gh EXCEPT ![p] = [CacheCall(@, ok) EXCEPT
                   !.dels = @ \cup WriteInvalidates(req[p].id)]]
       /\ ideal' = (ideal /\ ok)
  /\ Goto(p, "done", Write(WriteHeader(resp[p], StatusOK),
                           <<"status", "updated">>))
  /\ UNCHANGED <<srv, created>>
  /\ UNCHANGED <<store, nextId, clock, req, local, left, ncorrupt>>

\* (variant: only a document the cache knows is deleted)
Remove_IfCached(objID) ==
  IF cache[ItemKey(Hex(objID))] = Nil THEN store
  ELSE [i \in DOMAIN store \ {objID} |-> store[i]]

\* the collection without document objID
Remove(objID) == [i \in DOMAIN store \ {objID} |-> store[i]]

\* request arrival, identifier parsing and Collection.DeleteOne of
\* deleteTodo; deleteTodoForm runs deleteTodo and then goes on
DeleteTodo_DeleteOne(p, kind) ==
  /\ Free(p)
  /\ \E s \in HexStrs :
       /\ Begin(p, [Request(kind) EXCEPT !.id = s])
       /\ IF IdRejects(NoResp, s) # NoResp
          THEN \* deleteTodoForm parses the identifier again and answers again
               /\ Goto(p, "done", IF kind = "deleteForm"
                                  THEN IdRejects(IdRejects(NoResp, s), s)
                                  ELSE IdRejects(NoResp, s))
               /\ gh' = [gh EXCEPT ![p] = FreshGh]
               /\ UNCHANGED <<store, ideal>>
          ELSE \E ok \in BOOLEAN :
               LET objID == ObjectIDFromHex(s).id
                   found == objID \in DOMAIN store
                   g == [gh EXCEPT ![p] = [FreshGh EXCEPT !.sOps = 1]]
               IN
               /\ ideal' = (ideal /\ ok /\ s[2] # "upper")
               /\ IF ok /\ found
                  THEN /\ store' = Remove(objID)
                       /\ gh' = [Dirty(g, p) EXCEPT ![p].wrote = TRUE,
                                                 ![p].matched = 1]
                       /\ Goto(p, "delete_del", NoResp)
                  ELSE IF ok
                  THEN /\ UNCHANGED store
                       /\ gh' = g
                       /\ Goto(p, "delete_del", NoResp)
                  ELSE /\ UNCHANGED store
                       /\ gh' = [g EXCEPT ![p].sErr = TRUE]
                       /\ Goto(p, IF kind = "deleteForm" THEN "form_one"
                                  ELSE "done",
                               HttpError(NoResp, "Failed to delete",
                                         StatusInternalServerError))
  /\ local' = [local EXCEPT ![p] = <<>>]
  /\ UNCHANGED <<srv, created>>
  /\ UNCHANGED <<cache, nextId, clock, ncorrupt>>

deleteTodo(p) == DeleteTodo_DeleteOne(p, "delete")
deleteTodoForm(p) == DeleteTodo_DeleteOne(p, "deleteForm")

\* the status deleteTodo answers once DeleteOne returned no error, whatever
\* the number of documents it deleted
DeleteStatus(deletedCount) == StatusOK

\* RedisClient.Del("todos:all", "todo:<idStr>"), then the acknowledgement
deleteTodo_Del(p) ==
  /\ At(p, "delete_del")
  /\ \E ok \in BOOLEAN :
       /\ Del(WriteInvalidates(req[p].id), ok)
       /\ gh' = [gh EXCEPT ![p] = [CacheCall(@, ok) EXCEPT
                   !.dels = @ \cup WriteInvalidates(req[p].id)]]
       /\ ideal' = (ideal /\ ok)
  /\ Goto(p, IF req[p].kind = "deleteForm" THEN "form_one" ELSE "done",
          Write(WriteHeader(resp[p], DeleteStatus(gh[p].matched)),
                <<"status", "deleted">>))
  /\ UNCHANGED <<srv, created>>
  /\ UNCHANGED <<store, nextId, clock, req, local, left, ncorrupt>>

\* deleteTodoForm after deleteTodo returned: Collection.DeleteOne again
deleteTodoForm_DeleteOne(p) ==
  /\ At(p, "form_one")
  /\ \E ok \in BOOLEAN :
       LET objID == ObjectIDFromHex(req[p].id).id
           found == objID \in DOMAIN store
       IN
       /\ ideal' = (ideal /\ ok)
       /\ IF ok /\ found
          THEN /\ store' = Remove(objID)
               /\ gh' = [Dirty(gh, p) EXCEPT ![p].sOps = @ + 1,
                                          ![p].wrote = TRUE]
               /\ Goto(p, "form_del", resp[p])
          ELSE IF ok
          THEN /\ UNCHANGED store
               /\ gh' = [gh EXCEPT ![p].sOps = @ + 1]
               /\ Goto(p, "form_del", resp[p])
          ELSE /\ UNCHANGED store
               /\ gh' = [gh EXCEPT ![p].sOps = @ + 1, ![p].sErr = TRUE]
               /\ Goto(p, "done", HttpError(resp[p], "Failed to delete",
                                            StatusInternalServerError))
  /\ UNCHANGED <<srv, created>>
  /\ UNCHANGED <<cache, nextId, clock, req, local, left, ncorrupt>>

\* RedisClient.Del again, then http.Redirect to "/"
deleteTodoForm_Del(p) ==
  /\ At(p, "form_del")
  /\ \E ok \in BOOLEAN :
       /\ Del(WriteInvalidates(req[p].id), ok)
       /\ gh' = [gh EXCEPT ![p] = [CacheCall(@, ok) EXCEPT
                   !.dels = @ \cup WriteInvalidates(req[p].id)]]
       /\ ideal' = (ideal /\ ok)
  /\ Goto(p, "done", Redirect(resp[p], "/", StatusSeeOther))
  /\ UNCHANGED <<srv, created>>
  /\ UNCHANGED <<store, nextId, clock, req, local, left, ncorrupt>>

\* ------------------------------------------------------------- environment
\* (variant: entries are written with expiration 0, which keeps them for
\* ever)
TTLOf_None(k) == 0

\* the expiration, in minutes, the service gives the entries it writes
TTLOf(k) == IF k = ListKey THEN ListTTL ELSE ItemTTL

\* a cache entry reaches its time-to-live
Expire(k) ==
  /\ ~Returning
  /\ cache[k] # Nil
  /\ TTLOf(k) > 0
  /\ cache' = [cache EXCEPT ![k] = Nil]
  /\ UNCHANGED <<srv, created>>
  /\ UNCHANGED <<store, nextId, clock, pc, req, local, resp, gh, ideal, left,
                 ncorrupt>>

\* another client of the cache overwrites an entry with a value that is no
\* JSON
Corrupt(k) ==
  /\ ~Returning
  /\ ncorrupt < MaxCorrupt
  /\ cache[k] \notin {Nil, Garbage}
  /\ ncorrupt' = ncorrupt + 1
  /\ cache' = [cache EXCEPT ![k] = Garbage]
  /\ ideal' = FALSE
  /\ UNCHANGED <<srv, created>>
  /\ UNCHANGED <<store, nextId, clock, pc, req, local, resp, gh, left>>

\* the handler of p has returned: the response is with the client and the
\* goroutine ends
Return(p) ==
  /\ pc[p] = "done"
  /\ pc' = [pc EXCEPT ![p] = "idle"]
  /\ req' = [req EXCEPT ![p] = NoReq]
  /\ local' = [local EXCEPT ![p] = <<>>]
  /\ resp' = [resp EXCEPT ![p] = NoResp]
  /\ gh' = [gh EXCEPT ![p] = NoGh]
  /\ UNCHANGED <<srv, created>>
  /\ UNCHANGED <<store, cache, nextId, clock, ideal, left, ncorrupt>>

\* ----------------------------------------------------------- specification
Next ==
  \/ \E p \in Procs : Return(p)
  \/ \E p \in Procs : listTodos(p)
  \/ \E p \in Procs : handleHome(p)
  \/ \E p \in Procs : GetAllTodos_Find(p)
  \/ \E p \in Procs : GetAllTodos_Set(p)
  \/ \E p \in Procs : createTodo(p)
  \/ \E p \in Procs : createTodo_Insert(p)
  \/ \E p \in Procs : createTodo_Del(p)
  \/ \E p \in Procs : getTodo(p)
  \/ \E p \in Procs : getTodo_FindOne(p)
  \/ \E p \in Procs : getTodo_Set(p)
  \/ \E p \in Procs : updateTodo(p)
  \/ \E p \in Procs : updateTodo_Del(p)
  \/ \E p \in Procs : deleteTodo(p)
  \/ \E p \in Procs : deleteTodo_Del(p)
  \/ \E p \in Procs : deleteTodoForm(p)
  \/ \E p \in Procs : deleteTodoForm_DeleteOne(p)
  \/ \E p \in Procs : deleteTodoForm_Del(p)
  \/ \E k \in CacheKeys : Expire(k)
  \/ \E k \in CacheKeys : Corrupt(k)

Spec == Init /\ [][Next]_vars

\* the same service with clients that send one request more
InitMore ==
  /\ store = InitStore
  /\ cache = [k \in CacheKeys |-> Nil]
  /\ nextId = 2
  /\ clock = 2
  /\ pc = [p \in Procs |-> "idle"]
  /\ req = [p \in Procs |-> NoReq]
  /\ local = [p \in Procs |-> <<>>]
  /\ resp = [p \in Procs |-> NoResp]
  /\ gh = [p \in Procs |-> NoGh]
  /\ ideal = TRUE
  /\ left = MaxReqs + 1
  /\ ncorrupt = 0
  /\ srv = Running
  /\ created = Resources

SpecMore == InitMore /\ [][Next]_vars


\* the state after construction with n requests to come, main in state s and
\* the resources c provisioned
Start(n, s, c) ==
  /\ store = InitStore
  /\ cache = [k \in CacheKeys |-> Nil]
  /\ nextId = 2
  /\ clock = 2
  /\ pc = [p \in Procs |-> "idle"]
  /\ req = [p \in Procs |-> NoReq]
  /\ local = [p \in Procs |-> <<>>]
  /\ resp = [p \in Procs |-> NoResp]
  /\ gh = [p \in Procs |-> NoGh]
  /\ ideal = TRUE
  /\ left = n
  /\ ncorrupt = 0
  /\ srv = s
  /\ created = c

\* ------------------------------------------------- provisioning (main.tf)
\* the provisioning tool creates a resource once everything it depends on
\* exists
Apply(r) ==
  /\ r \notin created
  /\ DependsOn(r) \subseteq created
  /\ created' = created \cup {r}
  /\ UNCHANGED <<store, cache, nextId, clock, pc, req, local, resp, gh, ideal,
                 left, ncorrupt, srv>>

\* nothing is provisioned yet and the service does not run
InitInfra == Start(0, [Running EXCEPT !.state = "absent"], {})
NextInfra == \E r \in Resources : Apply(r)
SpecInfra == InitInfra /\ [][NextInfra]_vars

\* ------------------------------------------------- shutdown (func main)
\* the requests the server is serving
InFlight == {p \in Procs : pc[p] # "idle"}

\* os.Interrupt or SIGTERM arrives: main enters server.Shutdown(ctx), which
\* closes the listener at once; ctx expires after the grace period
Signal ==
  /\ srv.state = "serving"
  /\ srv' = [srv EXCEPT !.state = "draining", !.grace = Grace]
  /\ UNCHANGED <<store, cache, nextId, clock, pc, req, local, resp, gh, ideal,
                 left, ncorrupt, created>>

\* time passes while Shutdown waits
Tick ==
  /\ srv.state = "draining"
  /\ srv.grace > 0
  /\ srv' = [srv EXCEPT !.grace = @ - 1]
  /\ UNCHANGED <<store, cache, nextId, clock, pc, req, local, resp, gh, ideal,
                 left, ncorrupt, created>>

\* server.Shutdown returns nil: every connection has become idle
Shutdown_Drained ==
  /\ srv.state = "draining"
  /\ InFlight = {}
  /\ srv' = [srv EXCEPT !.state = "stopped"]
  /\ UNCHANGED <<store, cache, nextId, clock, pc, req, local, resp, gh, ideal,
                 left, ncorrupt, created>>

\* ctx expires: server.Shutdown returns the context's error and main calls
\* server.Close, which closes the connections still in use
Shutdown_Expired ==
  /\ srv.state = "draining"
  /\ srv.grace = 0
  /\ InFlight # {}
  /\ srv' = [srv EXCEPT !.state = "stopped", !.cut = InFlight]
  /\ UNCHANGED <<store, cache, nextId, clock, pc, req, local, resp, gh, ideal,
                 left, ncorrupt, created>>

\* main returns; its deferred calls run last-in first-out: redisClient.Close
Deferred_RedisClose ==
  /\ srv.state = "stopped"
  /\ srv.redis
  /\ srv' = [srv EXCEPT !.redis = FALSE]
  /\ UNCHANGED <<store, cache, nextId, clock, pc, req, local, resp, gh, ideal,
                 left, ncorrupt, created>>

\* mongoClient.Disconnect, after which the process exits
Deferred_MongoDisconnect ==
  /\ srv.state = "stopped"
  /\ ~srv.redis
  /\ srv.mongo
  /\ srv' = [srv EXCEPT !.mongo = FALSE, !.state = "exited"]
  /\ UNCHANGED <<store, cache, nextId, clock, pc, req, local, resp, gh, ideal,
                 left, ncorrupt, created>>

\* (variant: the listener stays open during shutdown)
Accepting_Always == srv.state # "exited"

\* the server accepts a request only while its listener is open
Accepting == srv.state = "serving"
\* a handler goroutine runs as long as the process does
Alive == srv.state # "exited"
\* the step just taken met no store or cache failure, no foreign cache write
\* and no non-canonical identifier
Smooth == ideal'

\* the service with reliable backends and a termination signal
NextShutdown ==
  \/ Signal
  \/ Tick
  \/ Shutdown_Drained
  \/ Shutdown_Expired
  \/ Deferred_RedisClose
  \/ Deferred_MongoDisconnect
  \/ \E p \in Procs : Alive /\ Return(p)
  \/ \E p \in Procs : Accepting /\ listTodos(p) /\ Smooth
  \/ \E p \in Procs : Accepting /\ handleHome(p) /\ Smooth
  \/ \E p \in Procs : Alive /\ GetAllTodos_Find(p) /\ Smooth
  \/ \E p \in Procs : Alive /\ GetAllTodos_Set(p) /\ Smooth
  \/ \E p \in Procs : Accepting /\ createTodo(p) /\ Smooth
  \/ \E p \in Procs : Alive /\ createTodo_Insert(p) /\ Smooth
  \/ \E p \in Procs : Alive /\ createTodo_Del(p) /\ Smooth
  \/ \E p \in Procs : Accepting /\ getTodo(p) /\ Smooth
  \/ \E p \in Procs : Alive /\ getTodo_FindOne(p) /\ Smooth
  \/ \E p \in Procs : Alive /\ getTodo_Set(p) /\ Smooth
  \/ \E p \in Procs : Accepting /\ updateTodo(p) /\ Smooth
  \/ \E p \in Procs : Alive /\ updateTodo_Del(p) /\ Smooth
  \/ \E p \in Procs : Accepting /\ deleteTodo(p) /\ Smooth
  \/ \E p \in Procs : Alive /\ deleteTodo_Del(p) /\ Smooth
  \/ \E p \in Procs : Accepting /\ deleteTodoForm(p) /\ Smooth
  \/ \E p \in Procs : Alive /\ deleteTodoForm_DeleteOne(p) /\ Smooth
  \/ \E p \in Procs : Alive /\ deleteTodoForm_Del(p) /\ Smooth

\* main runs on: a pending signal is received, time passes, Shutdown returns
\* and the deferred calls return
FairShutdown ==
  /\ WF_vars(Tick)
  /\ WF_vars(Shutdown_Drained)
  /\ WF_vars(Shutdown_Expired)
  /\ WF_vars(Deferred_RedisClose)
  /\ WF_vars(Deferred_MongoDisconnect)

\* every request goroutine may be serving one request when the signal comes
InitShutdown == Start(Cardinality(Procs), Running, Resources)
SpecShutdown == InitShutdown /\ [][NextShutdown]_vars /\ FairShutdown


\* -------------------------------------------------- sequential executions
\* no other request is in flight when p picks up a request
Solo(p) == \A q \in Procs \ {p} : pc[q] = "idle"

\* requests that do not overlap, served without any failure and addressed
\* with canonical identifiers; cache entries may expire at any time
NextSeq ==
  \/ \E p \in Procs : Return(p)
  \/ \E p \in Procs : Solo(p) /\ listTodos(p) /\ Smooth
  \/ \E p \in Procs : Solo(p) /\ handleHome(p) /\ Smooth
  \/ \E p \in Procs : GetAllTodos_Find(p) /\ Smooth
  \/ \E p \in Procs : GetAllTodos_Set(p) /\ Smooth
  \/ \E p \in Procs : Solo(p) /\ createTodo(p) /\ Smooth
  \/ \E p \in Procs : createTodo_Insert(p) /\ Smooth
  \/ \E p \in Procs : createTodo_Del(p) /\ Smooth
  \/ \E p \in Procs : Solo(p) /\ getTodo(p) /\ Smooth
  \/ \E p \in Procs : getTodo_FindOne(p) /\ Smooth
  \/ \E p \in Procs : getTodo_Set(p) /\ Smooth
  \/ \E p \in Procs : Solo(p) /\ updateTodo(p) /\ Smooth
  \/ \E p \in Procs : updateTodo_Del(p) /\ Smooth
  \/ \E p \in Procs : Solo(p) /\ deleteTodo(p) /\ Smooth
  \/ \E p \in Procs : deleteTodo_Del(p) /\ Smooth
  \/ \E p \in Procs : Solo(p) /\ deleteTodoForm(p) /\ Smooth
  \/ \E p \in Procs : deleteTodoForm_DeleteOne(p) /\ Smooth
  \/ \E p \in Procs : deleteTodoForm_Del(p) /\ Smooth
  \/ \E k \in CacheKeys : Expire(k)

InitSeq == Start(MaxReqs + 2, Running, Resources)
SpecSeq == InitSeq /\ [][NextSeq]_vars

\* ------------------------------------------------------- fair executions
\* the step of p just taken met no store failure and carries a canonical
\* identifier; its cache calls may have failed
Reliable(p) == ~gh'[p].sErr /\ req'[p].id[2] # "upper"

\* concurrent requests against a reliable store and a cache that may fail
NextLive ==
  \/ \E p \in Procs : Return(p)
  \/ \E p \in Procs : listTodos(p) /\ Reliable(p)
  \/ \E p \in Procs : handleHome(p) /\ Reliable(p)
  \/ \E p \in Procs : GetAllTodos_Find(p) /\ Reliable(p)
  \/ \E p \in Procs : GetAllTodos_Set(p) /\ Reliable(p)
  \/ \E p \in Procs : createTodo(p) /\ Reliable(p)
  \/ \E p \in Procs : createTodo_Insert(p) /\ Reliable(p)
  \/ \E p \in Procs : createTodo_Del(p) /\ Reliable(p)
  \/ \E p \in Procs : getTodo(p) /\ Reliable(p)
  \/ \E p \in Procs : getTodo_FindOne(p) /\ Reliable(p)
  \/ \E p \in Procs : getTodo_Set(p) /\ Reliable(p)
  \/ \E p \in Procs : updateTodo(p) /\ Reliable(p)
  \/ \E p \in Procs : updateTodo_Del(p) /\ Reliable(p)
  \/ \E p \in Procs : deleteTodo(p) /\ Reliable(p)
  \/ \E p \in Procs : deleteTodo_Del(p) /\ Reliable(p)
  \/ \E p \in Procs : deleteTodoForm(p) /\ Reliable(p)
  \/ \E p \in Procs : deleteTodoForm_DeleteOne(p) /\ Reliable(p)
  \/ \E p \in Procs : deleteTodoForm_Del(p) /\ Reliable(p)
  \/ \E k \in CacheKeys : Expire(k)

\* a handler that has started runs to its return (every store and cache call
\* returns within the request's 60 s timeout), and an entry's time-to-live
\* runs out
FairLive ==
  /\ \A p \in Procs :
       /\ WF_vars(Return(p))
       /\ WF_vars(GetAllTodos_Find(p) /\ Reliable(p))
       /\ WF_vars(GetAllTodos_Set(p) /\ Reliable(p))
       /\ WF_vars(createTodo_Insert(p) /\ Reliable(p))
       /\ WF_vars(createTodo_Del(p) /\ Reliable(p))
       /\ WF_vars(getTodo_FindOne(p) /\ Reliable(p))
       /\ WF_vars(getTodo_Set(p) /\ Reliable(p))
       /\ WF_vars(updateTodo_Del(p) /\ Reliable(p))
       /\ WF_vars(deleteTodo_Del(p) /\ Reliable(p))
       /\ WF_vars(deleteTodoForm_DeleteOne(p) /\ Reliable(p))
       /\ WF_vars(deleteTodoForm_Del(p) /\ Reliable(p))
  /\ \A k \in CacheKeys : WF_vars(Expire(k))

\* one request for every request goroutine
InitLive == Start(Cardinality(Procs), Running, Resources)
SpecLive == InitLive /\ [][NextLive]_vars /\ FairLive


\* ================================================================== claims
Done(p) == pc[p] = "done"
IsList(p) == req[p].kind \in {"list", "home"}
\* the identifiers of a serialized list (the second component of a JSON list
\* or of the rendered page)
IdsOf(items) == {ObjectIDFromHex(items[i][2]).id : i \in 1..Len(items)}
\* the identifiers a finished list request shows
Listed(p) == IdsOf(resp[p].body[1][2])
\* the documents created since the service started
Created == DOMAIN store \ DOMAIN InitStore
\* the ObjectID request p addresses
Target(p) == ObjectIDFromHex(req[p].id).id

\* C1 (as claimed): once a create has been answered, every list request that
\* starts afterwards shows the created item, and the cache entry "todos:all",
\* when present, contains it.  Stated for runs without failures: a list
\* request during which the store did not change and that started after every
\* write was answered shows every created document, and with every write
\* answered the cached list holds every created document.
C1_ListShowsCreated ==
  /\ \A p \in Procs :
       (Done(p) /\ IsList(p) /\ resp[p].status = StatusOK /\ gh[p].clean
          /\ ideal) => Created \subseteq Listed(p)
  /\ (Quiet /\ ideal /\ UnmarshalList(cache[ListKey]).ok)
       => Created \subseteq IdsOf(cache[ListKey][2])

\* C2 (as claimed): once an update that set the completion flag has been
\* answered, every get-by-id that starts afterwards returns the new flag.
\* Stated for runs without failures and with canonical identifiers: a get
\* during which the store did not change, started after every write was
\* answered, returns completed = true for a document the store holds as
\* completed (documents start uncompleted, so an update set the flag).
C2_GetShowsUpdatedFlag ==
  \A p \in Procs :
    (Done(p) /\ req[p].kind = "get" /\ resp[p].status = StatusOK
       /\ gh[p].clean /\ ideal /\ Target(p) \in DOMAIN store
       /\ store[Target(p)].Completed)
    => /\ UnmarshalTodo(resp[p].body[1]).ok
       /\ UnmarshalTodo(resp[p].body[1]).val[1].Completed

\* the keys the claim C3 wants deleted after p's store write
C3_BothKeys(p) ==
  {ListKey, ItemKey(IF req[p].kind = "create" THEN Hex(local[p][1].ID)
                    ELSE req[p].id)}

\* C3 (as claimed): every request whose store write succeeded has deleted
\* both "todos:all" and the item-level entry of the written item by the time
\* it is answered (stated for runs without failures).
C3_WriteDeletesBothKeys ==
  \A p \in Procs :
    (Done(p) /\ gh[p].wrote /\ ideal) => C3_BothKeys(p) \subseteq gh[p].dels

\* the keys the handlers delete after a store write
C3_Expected(p) ==
  IF req[p].kind = "create" THEN {ListKey}
  ELSE {ListKey, ItemKey(req[p].id)}

\* C3 (amended): a request whose store write succeeded has issued, by the
\* time it returns and before any success status is written, the deletion of
\* "todos:all" and, for update, delete and form-delete, of "todo:<id>" with
\* the identifier as the request spelled it; create deletes "todos:all" only.
C3_WriteInvalidates ==
  \A p \in Procs :
    (gh[p].wrote /\ (Done(p) \/ resp[p].status \in {StatusOK, StatusCreated,
                                                    StatusSeeOther}))
    => gh[p].dels = C3_Expected(p)

C3_Witness ==
  \E p \in Procs : Done(p) /\ gh[p].wrote /\ req[p].kind = "update"
                   /\ resp[p].status = StatusOK
                   /\ gh[p].dels = {ListKey, ItemKey(req[p].id)}

\* C4 (as claimed): a delete of a well-formed identifier that matches no
\* document answers 404 (stated for runs without failures).
C4_DeleteMissingIs404 ==
  \A p \in Procs :
    (Done(p) /\ req[p].kind = "delete" /\ ~ObjectIDFromHex(req[p].id).err
       /\ ideal /\ gh[p].sOps = 1 /\ gh[p].matched = 0)
    => resp[p].status = StatusNotFound

\* C5 (as claimed): once a delete of an existing item has been answered, no
\* list request that starts afterwards shows the item and no get-by-id
\* returns it.  Stated for runs without failures and with canonical
\* identifiers: a read during which the store did not change, started after
\* every write was answered, shows no document the store does not hold.
C5_ReadsHideDeleted ==
  \A p \in Procs :
    (Done(p) /\ resp[p].status = StatusOK /\ gh[p].clean /\ ideal)
    => /\ IsList(p) => Listed(p) \subseteq DOMAIN store
       /\ req[p].kind = "get" => Target(p) \in DOMAIN store

\* what C6 asks of a finished request p that no cache call answered
C6_StoreAlone(p) ==
  LET r == req[p]
      w == resp[p]
      g == gh[p]
      id == Target(p)
      okId == ~ObjectIDFromHex(r.id).err
  IN
  /\ w.status = StatusInternalServerError => g.sErr
  /\ IsList(p) =>
       IF g.sErr THEN w.status = StatusInternalServerError
       ELSE /\ w.status = StatusOK
            /\ w.body = <<RenderAll(r.kind, local[p])>>
            /\ g.clean => local[p] = FindAll
  /\ r.kind = "get" =>
       /\ w.status \in {StatusOK, StatusNotFound}
       /\ w.status = StatusOK =>
            Len(local[p]) = 1 /\ w.body = <<Marshal(local[p][1])>>
       /\ g.sErr => w.status = StatusNotFound
       /\ (g.clean /\ ~g.sErr) =>
            IF id \in DOMAIN store
            THEN w.status = StatusOK /\ local[p] = <<Todo(id)>>
            ELSE w.status = StatusNotFound
  /\ (r.kind = "create" /\ r.valid /\ TitleOf(r) # "") =>
       IF g.sErr THEN w.status = StatusInternalServerError /\ ~g.wrote
       ELSE /\ g.wrote
            /\ w.status = IF r.ctype = "form" THEN StatusSeeOther
                          ELSE StatusCreated
            /\ g.clean => /\ local[p][1].ID \in DOMAIN store
                          /\ Todo(local[p][1].ID) = local[p][1]
  /\ (r.kind = "update" /\ okId /\ r.valid) =>
       IF g.sErr THEN w.status = StatusInternalServerError /\ ~g.wrote
       ELSE /\ w.status = StatusOK
            /\ w.body = <<<<"status", "updated">>>>
            /\ (g.clean /\ id \in DOMAIN store) =>
                 /\ g.wrote
                 /\ r.title # <<>> => store[id].Title = r.title[1]
                 /\ r.completed # <<>> => store[id].Completed = r.completed[1]
  /\ (r.kind = "delete" /\ okId) =>
       IF g.sErr THEN w.status = StatusInternalServerError /\ ~g.wrote
       ELSE /\ w.status = StatusOK
            /\ w.body = <<<<"status", "deleted">>>>
            /\ g.clean => id \notin DOMAIN store

\* C6: a request during which no cache call is answered (the cache is
\* unavailable) completes with the status and body the store alone
\* determines, its write takes effect in the store, and it answers 500 only
\* when a store call failed.
C6_CacheOutageFallsBack ==
  \A p \in Procs : (Done(p) /\ ~gh[p].cOk) => C6_StoreAlone(p)

\* a list whose cache Get and cache Set both failed, answered from the store
C6_Witness ==
  \E p \in Procs : /\ Done(p) /\ ~gh[p].cOk /\ req[p].kind = "list"
                   /\ gh[p].sets = {ListKey} /\ cache[ListKey] = Nil
                   /\ resp[p].status = StatusOK /\ Len(local[p]) > 0

\* C7: a JSON create with a non-empty title goes on to the store; when the
\* insert succeeds it adds exactly one document, under an identifier the
\* store did not hold, with the submitted title and completed = false, and
\* the request answers 201 with that document; when the insert fails the
\* store is unchanged.
C7_Step ==
  \A p \in Procs :
    LET r == req'[p]
        t == local'[p][1]
        json == r.kind = "create" /\ r.ctype = "json"
    IN
    /\ (pc[p] = "idle" /\ pc'[p] # "idle" /\ json /\ r.valid
          /\ TitleOf(r) # "")
       => pc'[p] = "create_insert"
    /\ (pc[p] = "create_insert" /\ pc'[p] = "create_del" /\ json)
       => /\ t.ID \notin DOMAIN store
          /\ DOMAIN store' = DOMAIN store \cup {t.ID}
          /\ \A i \in DOMAIN store : store'[i] = store[i]
          /\ store'[t.ID].Title = TitleOf(r)
          /\ store'[t.ID].Completed = FALSE
    /\ (pc[p] = "create_insert" /\ pc'[p] = "done" /\ json)
       => store' = store /\ resp'[p].status = StatusInternalServerError
    /\ (pc[p] = "create_del" /\ pc'[p] = "done" /\ json)
       => /\ store' = store
          /\ resp'[p].status = StatusCreated
          /\ resp'[p].body = <<Marshal(t)>>
          /\ UnmarshalTodo(resp'[p].body[1]).val[1] =
               [ID |-> t.ID, Title |-> TitleOf(r), Completed |-> FALSE,
                CreatedAt |-> t.CreatedAt]
          /\ gh'[p].sOps = 1
\* C7: every step of a JSON create with a non-empty title is as C7_Step says
\* (one new document under a fresh identifier, completed = false, 201).
C7_CreateInserts == [][C7_Step]_vars

C7_Witness ==
  \E p \in Procs : /\ Done(p) /\ req[p].kind = "create"
                   /\ req[p].ctype = "json" /\ resp[p].status = StatusCreated
                   /\ local[p][1].ID \in DOMAIN store

\* C8: a create whose title is empty or missing, JSON or form, answers 400,
\* makes no store call and deletes (and writes) no cache entry.
C8_EmptyTitleRejected ==
  \A p \in Procs :
    (Done(p) /\ req[p].kind = "create" /\ TitleOf(req[p]) = "")
    => /\ resp[p].status = StatusBadRequest
       /\ gh[p].sOps = 0 /\ ~gh[p].wrote
       /\ gh[p].dels = {} /\ gh[p].sets = {}
       /\ local[p] = <<>>

C8_Witness ==
  \E p \in Procs : /\ Done(p) /\ req[p].kind = "create" /\ req[p].valid
                   /\ req[p].ctype = "form" /\ TitleOf(req[p]) = ""
                   /\ resp[p].status = StatusBadRequest

\* C9 (as claimed): a read never hands an undeserializable cache value to the
\* client.
C9_NoGarbageReturned ==
  \A p \in Procs :
    (Done(p) /\ req[p].kind \in {"list", "home", "get"})
    => \A i \in 1..Len(resp[p].body) : resp[p].body[i] # Garbage

\* C10 (as claimed): every identifier-addressed endpoint answers a malformed
\* identifier with 400 and touches neither store nor cache (stated for runs
\* without failures).
C10_MalformedIs400 ==
  \A p \in Procs :
    (Done(p) /\ req[p].kind \in {"get", "update", "delete", "deleteForm"}
       /\ ObjectIDFromHex(req[p].id).err /\ ideal)
    => /\ resp[p].status = StatusBadRequest
       /\ ~gh[p].wrote /\ gh[p].dels = {} /\ gh[p].sets = {}

\* C11 (as claimed): a request during which a store operation failed answers
\* 500, and no request attempts more than one store operation.
C11_StoreFailureIs500 ==
  \A p \in Procs :
    Done(p) => /\ gh[p].sErr => resp[p].status = StatusInternalServerError
               /\ gh[p].sOps <= 1

\* C12 (as claimed): a form-delete of a well-formed identifier performs one
\* store delete and one invalidation and sends exactly one response, the 303
\* redirect to "/", without the JSON acknowledgement (stated for runs without
\* failures).
C12_FormDeleteRedirects ==
  \A p \in Procs :
    (Done(p) /\ req[p].kind = "deleteForm" /\ ~ObjectIDFromHex(req[p].id).err
       /\ ideal)
    => /\ resp[p].status = StatusSeeOther
       /\ resp[p].location = "/"
       /\ resp[p].body = <<>>
       /\ resp[p].hdr = 1
       /\ gh[p].sOps = 1

\* C13 (as claimed): an update of a well-formed identifier that matches no
\* document answers 404 (stated for runs without failures).
C13_UpdateMissingIs404 ==
  \A p \in Procs :
    (Done(p) /\ req[p].kind = "update" /\ ~ObjectIDFromHex(req[p].id).err
       /\ req[p].valid /\ ideal /\ gh[p].sOps = 1 /\ gh[p].matched = 0)
    => resp[p].status = StatusNotFound

\* the cache entry under key k is what the store holds now
Fresh(k) ==
  IF k = ListKey THEN cache[k] = MarshalList(FindAll)
  ELSE /\ ~ObjectIDFromHex(k[2]).err
       /\ ObjectIDFromHex(k[2]).id \in DOMAIN store
       /\ cache[k] = Marshal(Todo(ObjectIDFromHex(k[2]).id))
\* the cache holds an entry under k that differs from the store
Stale(k) == cache[k] # Nil /\ ~Fresh(k)

\* entries are written only at the end of a read that missed, under the key
\* of the read and with what the read found; a request that is answered
\* from the cache (or rejected at once) leaves the cache as it is
C14_Step ==
  /\ \A k \in CacheKeys :
       (cache'[k] # cache[k] /\ cache'[k] # Nil) =>
         \E p \in Procs :
           /\ pc'[p] = "done"
           /\ \/ /\ pc[p] = "all_set" /\ k = ListKey
                 /\ cache'[k] = MarshalList(local[p])
              \/ /\ pc[p] = "get_set" /\ k = ItemKey(req[p].id)
                 /\ cache'[k] = Marshal(local[p][1])
  /\ \A p \in Procs : (pc[p] = "idle" /\ pc'[p] = "done") => cache' = cache

\* C14: a cache entry is written only on a read miss and a hit does not
\* rewrite it; every entry is eventually removed, and once the requests have
\* been served no stale entry stays, so that a read finds the cache empty or
\* equal to the store.
C14_EntriesExpire ==
  /\ [][C14_Step]_vars
  /\ \A k \in CacheKeys : (cache[k] # Nil) ~> (cache[k] = Nil)
  /\ <>[](\A k \in CacheKeys : ~Stale(k))

\* a stale entry left behind by requests that have all been answered
C14_Witness ==
  /\ \A p \in Procs : pc[p] = "idle"
  /\ \E k \in CacheKeys : Stale(k)

\* the store after the step of p, from the store before it, the request and
\* the outcome of the store call alone
C15_Effect(p) ==
  LET r == req'[p]
      id == ObjectIDFromHex(r.id).id
  IN
  CASE pc[p] = "create_insert" /\ pc'[p] = "create_del" ->
         store @@ (local[p][1].ID :>
                     [Title |-> TitleOf(r), Completed |-> FALSE,
                      CreatedAt |-> local[p][1].CreatedAt])
    [] pc[p] = "idle" /\ pc'[p] = "update_del" /\ id \in DOMAIN store ->
         [store EXCEPT
            ![id].Title = IF r.title = <<>> THEN @ ELSE r.title[1],
            ![id].Completed = IF r.completed = <<>> THEN @
                              ELSE r.completed[1]]
    [] /\ \/ pc[p] = "idle" /\ pc'[p] = "delete_del"
          \/ pc[p] = "form_one" /\ pc'[p] = "form_del"
       /\ id \in DOMAIN store ->
         [i \in DOMAIN store \ {id} |-> store[i]]
    [] OTHER -> store

C15_Step ==
  /\ \A p \in Procs : pc'[p] # pc[p] => store' = C15_Effect(p)
  /\ (pc' = pc) => store' = store

\* C15: the store changes only in the store calls of create, update, delete
\* and form-delete, and its new contents are a function of its old contents,
\* the request and the outcome of the store call; neither the contents of
\* the cache nor the outcome of any cache call enters.
C15_StoreAloneDecides == [][C15_Step]_vars

\* a delete that took effect although the cache answered none of its calls
C15_Witness ==
  \E p \in Procs : /\ Done(p) /\ req[p].kind = "delete" /\ gh[p].wrote
                   /\ ~gh[p].cOk /\ Target(p) \notin DOMAIN store

C16_Step ==
  /\ srv.state # "serving" =>
       \A p \in Procs : pc[p] = "idle" => pc'[p] = "idle"
  /\ srv'.cut # srv.cut =>
       /\ srv.state = "draining" /\ srv.grace = 0
       /\ srv'.cut = InFlight
  /\ (srv.state = "draining" /\ srv'.state # "draining") =>
       /\ srv'.state = "stopped"
       /\ srv.grace > 0 => InFlight = {}
  /\ \A p \in Procs :
       (pc[p] = "done" /\ pc'[p] = "idle"
          /\ srv.state \in {"serving", "draining"}) => p \notin srv.cut
  /\ (srv'.redis # srv.redis \/ srv'.mongo # srv.mongo) =>
       srv.state = "stopped"

C16_Inv ==
  /\ srv.grace \in 0..Grace
  /\ srv.state \in {"serving", "draining"} =>
       srv.cut = {} /\ srv.redis /\ srv.mongo
  /\ srv.state = "exited" => ~srv.redis /\ ~srv.mongo

\* C16: after the signal no request is accepted; requests in flight keep
\* their connections until they return or the grace period has run out, when
\* the connections still in use are closed; then main closes the cache and
\* store handles and the process exits, and every shutdown gets there.
C16_GracefulShutdown ==
  /\ [][C16_Step]_vars
  /\ []C16_Inv
  /\ (srv.state = "draining") ~> (srv.state = "exited")

\* a request answered while the server waits, after part of the grace period
C16_Witness ==
  \E p \in Procs : /\ Done(p) /\ srv.state = "draining" /\ srv.grace < Grace
                   /\ resp[p].status = StatusOK /\ p \notin srv.cut

C17_Step ==
  \A p \in Procs :
    (pc[p] = "idle" /\ req'[p].kind = "update") =>
      LET r == req'[p]
          id == ObjectIDFromHex(r.id).id
      IN
      /\ DOMAIN store' = DOMAIN store
      /\ \A i \in DOMAIN store :
           /\ i # id => store'[i] = store[i]
           /\ store'[i].CreatedAt = store[i].CreatedAt
           /\ r.title = <<>> => store'[i].Title = store[i].Title
           /\ r.completed = <<>> => store'[i].Completed = store[i].Completed
      /\ (gh'[p].wrote /\ r.title # <<>>) => store'[id].Title = r.title[1]
      /\ (gh'[p].wrote /\ r.completed # <<>>)
           => store'[id].Completed = r.completed[1]

\* C17: an update writes the fields its body carries and nothing else: a
\* field the body lacks, the creation time, the set of identifiers and every
\* other document stay as they were.
C17_UpdateFrame == [][C17_Step]_vars

\* an update of the completion flag alone, with the title still in place
C17_Witness ==
  \E p \in Procs : /\ Done(p) /\ req[p].kind = "update" /\ gh[p].wrote
                   /\ req[p].title = <<>> /\ req[p].completed = <<TRUE>>
                   /\ store[Target(p)].Completed
                   /\ store[Target(p)].Title = "t0"

\* the resources that can be created in some order respecting DependsOn,
\* starting from the set S
RECURSIVE Creatable(_)
Creatable(S) ==
  LET T == {r \in Resources \ S : DependsOn(r) \subseteq S}
  IN IF T = {} THEN S ELSE Creatable(S \cup T)

\* C18: whenever a private endpoint exists, the resource it exposes, the
\* private-endpoints subnet and its DNS zone exist already; whenever the
\* container app exists, both private endpoints do; and the dependency
\* edges admit an order that creates every resource (no cycle).
C18_CreationOrder ==
  /\ "private_endpoint_cosmos" \in created =>
       {"cosmosdb_account", "subnet_private_endpoints", "dns_zone_cosmos"}
         \subseteq created
  /\ "private_endpoint_redis" \in created =>
       {"redis_cache", "subnet_private_endpoints", "dns_zone_redis"}
         \subseteq created
  /\ "container_app" \in created =>
       {"private_endpoint_cosmos", "private_endpoint_redis"}
         \subseteq created
  /\ \A r \in created : DependsOn(r) \subseteq created
  /\ Creatable({}) = Resources

\* everything has been created, the container app included
C18_Witness == created = Resources /\ "container_app" \in created

\* the answer a read would get from the store directly
C19_FromStore(p) ==
  IF IsList(p)
  THEN /\ resp[p].status = StatusOK
       /\ resp[p].body = <<RenderAll(req[p].kind, FindAll)>>
  ELSE IF Target(p) \in DOMAIN store
  THEN /\ resp[p].status = StatusOK
       /\ resp[p].body = <<Marshal(Todo(Target(p)))>>
  ELSE resp[p].status = StatusNotFound

\* C19: with requests that do not overlap, no failure and canonical
\* identifiers, after every completed request every entry the cache holds
\* equals what the store holds, and every read answers as the store would.
C19_SequentialCoherence ==
  /\ (\A p \in Procs : pc[p] \in {"idle", "done"}) =>
       \A k \in CacheKeys : ~Stale(k)
  /\ \A p \in Procs :
       (Done(p) /\ req[p].kind \in {"list", "home", "get"}) => C19_FromStore(p)

\* a list answered from the cache after a create
C19_Witness ==
  \E p \in Procs : /\ Done(p) /\ IsList(p) /\ gh[p].sOps = 0
                   /\ resp[p].status = StatusOK /\ Created # {}
                   /\ Created \subseteq Listed(p)

\* C20 (as claimed): an update or delete that succeeded and whose cache
\* deletion was answered leaves no item-level entry under any spelling of
\* the identifier it addressed.
C20_SpellingsShareKey ==
  \A p \in Procs :
    (Done(p) /\ req[p].kind \in {"update", "delete"}
       /\ resp[p].status = StatusOK /\ gh[p].cOk)
    => \A s \in HexStrs :
         (~ObjectIDFromHex(s).err /\ ObjectIDFromHex(s).id = Target(p))
         => cache[ItemKey(s)] = Nil

\* C21 (as claimed): a create, update, delete or form-delete that leaves the
\* store as it was, or that is answered 400 or 500, has deleted and written
\* no cache key by the time it returns, and a get-by-id answered 404 has
\* written none.
C21_NoWriteNoInvalidation ==
  \A p \in Procs :
    Done(p) =>
      /\ (/\ req[p].kind \in {"create", "update", "delete", "deleteForm"}
          /\ \/ ~gh[p].wrote
             \/ resp[p].status \in {StatusBadRequest,
                                    StatusInternalServerError})
         => gh[p].dels = {} /\ gh[p].sets = {}
      /\ (req[p].kind = "get" /\ resp[p].status = StatusNotFound)
         => gh[p].sets = {}

====
